---- MODULE Spec2Model ----
(***************************************************************************)
(* A model of merge_dshield_logs.py: the merge state document, the chunk   *)
(* writer and one run of process(), together with the file system they     *)
(* work on and the external actors (log rotation, kill, interrupt).        *)
(*                                                                         *)
(* Sizes are scaled down so that the interesting cases are reachable:      *)
(* CHUNK_BYTES is 2 bytes instead of 50 MB and the chunk file name pads    *)
(* the index to IndexWidth = 1 digit instead of 5.                         *)
(***************************************************************************)
EXTENDS Integers, Sequences, FiniteSets, TLC

(***************************************************************************)
(* Program constants (scaled) and bounds of the model.                     *)
(***************************************************************************)
CHUNK_BYTES == 2
IndexWidth == 1
Radix == 10

MaxRuns == 2
MaxEnv == 1
MaxOps == 3
MaxStops == 2

(***************************************************************************)
(* Text and bytes.  A str is a sequence of characters; "E" stands for a    *)
(* character outside ASCII (U+00E9), which UTF-8 encodes in two bytes.     *)
(***************************************************************************)
encode_char(c) ==
    IF c = "\n" THEN <<10>>
    ELSE IF c = "E" THEN <<195, 169>>
    ELSE <<97>>

RECURSIVE encode(_)
encode(line) ==
    IF line = <<>> THEN <<>>
    ELSE encode_char(Head(line)) \o encode(Tail(line))

endswith_newline(line) == line # <<>> /\ line[Len(line)] = "\n"

normalize_always(line) == Append(line, "\n")

\* process, lines 164-165: a line without terminator gets one.
normalize(line) == IF ~endswith_newline(line) THEN Append(line, "\n") ELSE line

IsPrefix(s, t) == Len(s) <= Len(t) /\ SubSeq(t, 1, Len(s)) = s

(***************************************************************************)
(* Chunk file names.  A name is the sequence of character codes of the     *)
(* zero-padded decimal index followed by the "." of ".log" (the prefix and *)
(* the rest of the extension are the same in every name).  sorted() on the *)
(* glob result compares these names character by character.                *)
(***************************************************************************)
RECURSIVE Digits(_)
Digits(n) == IF n < Radix THEN <<n>> ELSE Append(Digits(n \div Radix), n % Radix)

RECURSIVE ZeroPad(_)
ZeroPad(ds) == IF Len(ds) >= IndexWidth THEN ds ELSE ZeroPad(<<0>> \o ds)

_path(idx) == [k \in 1..Len(ZeroPad(Digits(idx))) |-> ZeroPad(Digits(idx))[k] + 48] \o <<46>>

RECURSIVE StrLess(_, _)
StrLess(s, t) ==
    IF s = <<>> THEN t # <<>>
    ELSE IF t = <<>> THEN FALSE
    ELSE IF Head(s) # Head(t) THEN Head(s) < Head(t)
    ELSE StrLess(Tail(s), Tail(t))

\* int(base.split(OUTPUT_PREFIX, 1)[1].split(".log", 1)[0]): the decimal value of
\* the characters before the first ".".
RECURSIVE ParseInt(_, _)
ParseInt(name, acc) ==
    IF name = <<>> \/ Head(name) = 46 THEN acc
    ELSE ParseInt(Tail(name), acc * Radix + (Head(name) - 48))

Max_latest(a, b) == b

Max(a, b) == IF a >= b THEN a ELSE b

next_output_index(ch) ==
    LET existing == {_path(i) : i \in DOMAIN ch}
    IN  IF existing = {} THEN 1
        ELSE LET last == CHOOSE n \in existing : \A m \in existing : m = n \/ StrLess(m, n)
             IN  Max(1, ParseInt(last, 0))

(***************************************************************************)
(* ChunkWriter.  A directory of chunk files is a function from the indices *)
(* of the existing files to their bytes on disk.  A writer is a record:    *)
(* fh is <<>> for None and <<i>> for an open handle on chunk i; buf holds  *)
(* the bytes written to the handle that have not reached the file yet      *)
(* (open() buffers binary files).                                          *)
(***************************************************************************)
NoWriter == [index |-> 1, bytes_in_chunk |-> 0, fh |-> <<>>, buf |-> <<>>]

flushed(ch, w) == IF w.fh = <<>> THEN ch ELSE [ch EXCEPT ![w.fh[1]] = @ \o w.buf]

open_wb(ch, idx) ==
    IF idx \in DOMAIN ch THEN [ch EXCEPT ![idx] = <<>>] ELSE ch @@ (idx :> <<>>)

open_truncating(ch, start_index) ==
    [chunks |-> open_wb(ch, start_index),
     writer |-> [index |-> start_index, bytes_in_chunk |-> 0,
                 fh |-> <<start_index>>, buf |-> <<>>]]

_open_existing_or_new(ch, start_index) ==
    LET ch2 == IF start_index \in DOMAIN ch THEN ch ELSE open_wb(ch, start_index)
    IN  [chunks |-> ch2,
         writer |-> [index |-> start_index,
                     bytes_in_chunk |-> Len(ch2[start_index]),
                     fh |-> <<start_index>>,
                     buf |-> <<>>]]

rotate_unflushed(ch, w) ==
    [chunks |-> open_wb(ch, w.index + 1),
     writer |-> [index |-> w.index + 1, bytes_in_chunk |-> 0,
                 fh |-> <<w.index + 1>>, buf |-> <<>>]]

rotate(ch, w) ==
    [chunks |-> open_wb(flushed(ch, w), w.index + 1),
     writer |-> [index |-> w.index + 1, bytes_in_chunk |-> 0,
                 fh |-> <<w.index + 1>>, buf |-> <<>>]]

needs_rotate_when_full(bytes_in_chunk, n) == bytes_in_chunk >= CHUNK_BYTES

needs_rotate(bytes_in_chunk, n) ==
    bytes_in_chunk + n > CHUNK_BYTES /\ bytes_in_chunk > 0

write_line(ch, w, line) ==
    LET data == encode(line)
        r == IF needs_rotate(w.bytes_in_chunk, Len(data))
             THEN rotate(ch, w)
             ELSE [chunks |-> ch, writer |-> w]
    IN  [chunks |-> r.chunks,
         writer |-> [r.writer EXCEPT !.buf = @ \o data,
                                     !.bytes_in_chunk = @ + Len(data)]]

close_left_open(ch, w) ==
    [chunks |-> flushed(ch, w), writer |-> [w EXCEPT !.buf = <<>>]]

close(ch, w) ==
    [chunks |-> flushed(ch, w),
     writer |-> [w EXCEPT !.fh = <<>>, !.buf = <<>>]]

\* What the chunk files hold once everything written has reached them.
Logical(ch, w) == flushed(ch, w)

(***************************************************************************)
(* State.  The first group is the file system, the second the run of       *)
(* process() in progress, the third the history kept for the properties.   *)
(***************************************************************************)
VARIABLES
    files,      \* LOG_DIRS: input path |-> the file version there, or "none"
    sdir,       \* the state file, its ".tmp" and its ".bak" sibling
    chunks,     \* OUTPUT_DIR: index of each existing chunk file |-> its bytes
    pc,         \* where the run of process() stands, or how the last one ended
    processed,  \* process: the dict `processed`
    last_mtime_seen,
    inputs,     \* process: the inputs the loop has still to visit
    sig,        \* process: the signature computed for the current input
    gz,         \* process: the open gzip stream: version opened, next line
    processed_count,
    writer,     \* the ChunkWriter of the run (NoWriter when there is none)
    runs,       \* number of runs started
    envSteps,   \* number of steps the external actors have taken
    calm,       \* history: runs completed in a row with nothing else happening
    mergedAt,   \* history: path |-> version read to its end there, file unchanged since
    diskLog,    \* history: every byte that reached a chunk file, in order
    ops,        \* history: the write_line and rotate calls made so far
    stops,      \* history: how each writer instance was stopped
    savedMax    \* history: the highest watermark save_state has written

fsvars == <<files, sdir, chunks>>
runvars == <<pc, processed, last_mtime_seen, inputs, sig, gz, processed_count, writer>>
histvars == <<runs, envSteps, savedMax, calm, mergedAt, diskLog>>
wvars == <<ops, stops>>
procvars == <<files, sdir, pc, processed, last_mtime_seen, inputs, sig, gz,
              processed_count, runs, envSteps, savedMax, calm, mergedAt, diskLog>>

vars == <<files, sdir, chunks, pc, processed, last_mtime_seen, inputs, sig, gz,
          processed_count, writer, runs, envSteps, savedMax, calm, mergedAt, diskLog, ops, stops>>

(***************************************************************************)
(* Input files.  A version is one file as it exists at some time: its      *)
(* inode, size and modification time (in ticks, SubSecond ticks to the     *)
(* second), the lines the gzip text stream yields before it ends or fails, *)
(* and how it ends: "none" (end of stream), "oserror" (BadGzipFile or      *)
(* another OSError) or "eoferror" (a truncated stream raises EOFError,     *)
(* which is no OSError).  B reuses the inode of A.                          *)
(***************************************************************************)
SubSecond == 2

Paths == {"dshield.log.1.gz", "dshield.log.2.gz"}

Versions == {"A", "B", "C", "D"}

Ver ==
    [A |-> [ino |-> 1, size |-> 1, mtime |-> 2, fail |-> "none",
            lines |-> << <<"a", "\n">> >>],
     B |-> [ino |-> 1, size |-> 2, mtime |-> 4, fail |-> "none",
            lines |-> << <<"E", "\n">>, <<"a">> >>],
     C |-> [ino |-> 2, size |-> 1, mtime |-> 5, fail |-> "oserror",
            lines |-> << <<"\n">> >>],
     D |-> [ino |-> 3, size |-> 2, mtime |-> 3, fail |-> "eoferror",
            lines |-> << <<"E", "a", "\n">> >>]]

NoSig == [ino |-> 0, size |-> 0, mtime |-> 0]
NoGz == [ver |-> "none", pos |-> 0]
NoMerge == [ver |-> "none", run |-> 0]

\* os.stat of a file version, lines 60-61.
file_signature(v) ==
    [ino |-> Ver[v].ino, size |-> Ver[v].size, mtime |-> Ver[v].mtime \div SubSecond]

\* The bytes a complete merge of version v appends.
RECURSIVE Flatten(_)
Flatten(ls) == IF ls = <<>> THEN <<>> ELSE encode(normalize(Head(ls))) \o Flatten(Tail(ls))

Content(v) == Flatten(Ver[v].lines)

(***************************************************************************)
(* The state document and the files that hold it.                          *)
(***************************************************************************)
STATE_FILE == "state"

Missing == [kind |-> "missing", processed |-> <<>>, mtime |-> 0]
Bad(kind) == [kind |-> kind, processed |-> <<>>, mtime |-> 0]
Doc(p, m) == [kind |-> "doc", processed |-> p, mtime |-> m]

BadKinds == {"invalid", "undecodable", "notdict"}

EmptyState == [processed |-> <<>>, last_processed_mtime |-> 0]

load_state_no_watermark(sd, renamed) ==
    [outcome |-> "dict",
     state |-> [processed |-> sd[STATE_FILE].processed, last_processed_mtime |-> 0],
     sdir |-> sd]

\* load_state, lines 34-47.  "invalid" and "partial" content make json.load raise
\* JSONDecodeError; "undecodable" content makes the read raise UnicodeDecodeError,
\* which no except clause names; "notdict" content is valid JSON that is no object.
\* `renamed` is whether os.rename to the .bak sibling succeeds.
load_state(sd, renamed) ==
    LET f == sd[STATE_FILE]
    IN  IF f.kind = "missing"
        THEN [outcome |-> "dict", state |-> EmptyState, sdir |-> sd]
        ELSE IF f.kind = "doc"
        THEN [outcome |-> "dict",
              state |-> [processed |-> f.processed, last_processed_mtime |-> f.mtime],
              sdir |-> sd]
        ELSE IF f.kind = "notdict"
        THEN [outcome |-> "notdict", state |-> EmptyState, sdir |-> sd]
        ELSE IF f.kind = "undecodable"
        THEN [outcome |-> "raise", state |-> EmptyState, sdir |-> sd]
        ELSE [outcome |-> "dict", state |-> EmptyState,
              sdir |-> IF renamed
                       THEN [sd EXCEPT ![STATE_FILE] = Missing, !.bak = f]
                       ELSE sd]

\* save_state, line 51: the path the document is first written to.
tmp_in_place == STATE_FILE

tmp_path == "tmp"

mark_processed_forgotten(proc, path, s) == proc

\* processed[path] = sig, line 172.
mark_processed(proc, path, s) == (path :> s) @@ proc

is_duplicate_never(proc, path, s) == FALSE

\* The comparison of lines 153-154.
is_duplicate_ino_only(proc, path, s) ==
    path \in DOMAIN proc /\ proc[path].ino = s.ino

is_duplicate(proc, path, s) ==
    /\ path \in DOMAIN proc
    /\ proc[path].ino = s.ino
    /\ proc[path].size = s.size
    /\ proc[path].mtime = s.mtime

\* files.sort(key=lambda p: os.stat(p).st_mtime), line 69: a stable sort.
RECURSIVE InsertByMtime(_, _, _)
InsertByMtime(fs, sorted, p) ==
    IF sorted = <<>> THEN <<p>>
    ELSE IF Ver[fs[p]].mtime < Ver[fs[Head(sorted)]].mtime
         THEN <<p>> \o sorted
         ELSE <<Head(sorted)>> \o InsertByMtime(fs, Tail(sorted), p)

RECURSIVE SortByMtime(_, _)
SortByMtime(fs, ps) ==
    IF ps = <<>> THEN <<>>
    ELSE InsertByMtime(fs, SortByMtime(fs, SubSeq(ps, 1, Len(ps) - 1)), ps[Len(ps)])

RECURSIVE Contains(_, _)
Contains(log, s) ==
    \/ IsPrefix(s, log)
    \/ log # <<>> /\ Contains(Tail(log), s)

(***************************************************************************)
(* The chunk writer on its own: a caller constructs a writer, calls        *)
(* write_line, rotate and close in any order, and constructs a fresh       *)
(* writer on the index where the previous one stopped.                     *)
(***************************************************************************)
Lines == { <<"\n">>, <<"a", "\n">>, <<"E", "\n">>, <<"E", "a", "\n">>, <<"a">> }

WriteOp(l) == [op |-> "write_line", line |-> l]
RotateOp == [op |-> "rotate", line |-> <<>>]

InitWriter ==
    /\ chunks = <<>>
    /\ writer = NoWriter
    /\ ops = <<>>
    /\ stops = <<>>
    /\ savedMax = 0
    /\ files = [p \in Paths |-> "none"]
    /\ sdir = [state |-> Missing, tmp |-> Missing, bak |-> Missing]
    /\ pc = "idle"
    /\ processed = <<>>
    /\ last_mtime_seen = 0
    /\ inputs = <<>>
    /\ sig = NoSig
    /\ gz = NoGz
    /\ processed_count = 0
    /\ runs = 0
    /\ envSteps = 0
    /\ calm = "none"
    /\ mergedAt = [p \in Paths |-> NoMerge]
    /\ diskLog = <<>>

W_Construct ==
    /\ writer.fh = <<>>
    /\ Len(stops) <= MaxStops
    /\ LET r == _open_existing_or_new(chunks, writer.index)
       IN  chunks' = r.chunks /\ writer' = r.writer
    /\ UNCHANGED <<ops, stops, procvars>>

W_WriteLine ==
    /\ writer.fh # <<>>
    /\ Len(ops) < MaxOps
    /\ \E l \in Lines :
          /\ LET r == write_line(chunks, writer, l)
             IN  chunks' = r.chunks /\ writer' = r.writer
          /\ ops' = Append(ops, WriteOp(l))
    /\ UNCHANGED <<stops, procvars>>

W_Rotate ==
    /\ writer.fh # <<>>
    /\ Len(ops) < MaxOps
    /\ LET r == rotate(chunks, writer)
       IN  chunks' = r.chunks /\ writer' = r.writer
    /\ ops' = Append(ops, RotateOp)
    /\ UNCHANGED <<stops, procvars>>

StopRecord(how) ==
    [how |-> how, at |-> Len(ops), size |-> writer.bytes_in_chunk,
     unflushed |-> IF how = "close" THEN 0 ELSE Len(writer.buf)]

W_Close ==
    /\ writer.fh # <<>>
    /\ Len(stops) < MaxStops
    /\ LET r == close(chunks, writer)
       IN  chunks' = r.chunks /\ writer' = r.writer
    /\ stops' = Append(stops, StopRecord("close"))
    /\ UNCHANGED <<ops, procvars>>

\* The process is killed: what the handle still buffers never reaches the file.
W_Kill ==
    /\ writer.fh # <<>>
    /\ Len(stops) < MaxStops
    /\ writer' = [writer EXCEPT !.fh = <<>>, !.buf = <<>>]
    /\ stops' = Append(stops, StopRecord("kill"))
    /\ UNCHANGED <<chunks, ops, procvars>>

\* The buffered handle writes some of its buffer through to the file.
W_Flush ==
    /\ writer.fh # <<>>
    /\ writer.buf # <<>>
    /\ \E k \in 1..Len(writer.buf) :
          /\ chunks' = [chunks EXCEPT ![writer.fh[1]] = @ \o SubSeq(writer.buf, 1, k)]
          /\ writer' = [writer EXCEPT !.buf = SubSeq(@, k + 1, Len(@))]
    /\ UNCHANGED <<ops, stops, procvars>>

NextWriter ==
    \/ W_Construct
    \/ W_WriteLine
    \/ W_Rotate
    \/ W_Close
    \/ W_Flush

SpecWriter == InitWriter /\ [][NextWriter]_vars

NextResume ==
    \/ W_Construct
    \/ W_WriteLine
    \/ W_Rotate
    \/ W_Close
    \/ W_Kill
    \/ W_Flush

SpecResume == InitWriter /\ [][NextResume]_vars

\* The same calls made on one writer that is never stopped.
RECURSIVE Replay(_)
Replay(os) ==
    IF os = <<>> THEN _open_existing_or_new(<<>>, 1)
    ELSE LET r == Replay(SubSeq(os, 1, Len(os) - 1))
             o == os[Len(os)]
         IN  IF o.op = "rotate" THEN rotate(r.chunks, r.writer)
             ELSE write_line(r.chunks, r.writer, o.line)

Uninterrupted(os) == LET r == Replay(os) IN Logical(r.chunks, r.writer)

Constructed == writer.fh # <<>> \/ stops # <<>>
Lost == \E i \in 1..Len(stops) : stops[i].unflushed > 0

(***************************************************************************)
(* One run of process() after another, with the external actors.           *)
(***************************************************************************)
Stopped == {"idle", "exit0", "exit1", "exit130", "killed"}

OldChunk == <<10, 10>>

\* The output directory is empty, or earlier runs have filled every index
\* that the pad width of the file name can hold.
InitialChunks == { <<>>, [i \in 1..(Radix - 1) |-> OldChunk] }

InitialFiles ==
    { [p \in Paths |-> "none"],
      [p \in Paths |-> IF p = "dshield.log.1.gz" THEN "A" ELSE "none"],
      [p \in Paths |-> IF p = "dshield.log.1.gz" THEN "B" ELSE "A"],
      [p \in Paths |-> IF p = "dshield.log.1.gz" THEN "C" ELSE "none"],
      [p \in Paths |-> IF p = "dshield.log.1.gz" THEN "D" ELSE "none"] }

Init ==
    /\ files \in InitialFiles
    /\ chunks \in InitialChunks
    /\ sdir = [state |-> Missing, tmp |-> Missing, bak |-> Missing]
    /\ pc = "idle"
    /\ processed = <<>>
    /\ last_mtime_seen = 0
    /\ inputs = <<>>
    /\ sig = NoSig
    /\ gz = NoGz
    /\ processed_count = 0
    /\ writer = NoWriter
    /\ runs = 0
    /\ envSteps = 0
    /\ calm = "none"
    /\ mergedAt = [p \in Paths |-> NoMerge]
    /\ diskLog = <<>>
    /\ ops = <<>>
    /\ stops = <<>>
    /\ savedMax = 0

\* The run is over: its locals and its writer are gone.
StopRun(how) ==
    /\ pc' = how
    /\ processed' = <<>>
    /\ last_mtime_seen' = 0
    /\ inputs' = <<>>
    /\ sig' = NoSig
    /\ gz' = NoGz
    /\ processed_count' = 0
    /\ writer' = NoWriter

\* What this run merged counts as appended only if the bytes reached the files.
Settled ==
    mergedAt' = IF writer.buf = <<>> THEN mergedAt
                ELSE [p \in Paths |-> IF mergedAt[p].run = runs THEN NoMerge ELSE mergedAt[p]]

Completed == calm' = IF calm \in {"first", "second"} THEN "done1" ELSE "none"

\* An exception no handler catches ends the run with a traceback.
Raise ==
    /\ StopRun("exit1")
    /\ calm' = "none"

Start ==
    /\ pc \in Stopped
    /\ runs < MaxRuns
    /\ pc' = "load"
    /\ runs' = runs + 1
    /\ calm' = IF pc = "exit0" /\ calm = "done1" THEN "second" ELSE "first"
    /\ UNCHANGED <<fsvars, processed, last_mtime_seen, inputs, sig, gz, processed_count,
                   writer, envSteps, savedMax, mergedAt, diskLog, wvars>>

\* Lines 132-134.
LoadState ==
    /\ pc = "load"
    /\ \E renamed \in BOOLEAN :
          LET r == load_state(sdir, renamed)
          IN  /\ sdir' = r.sdir
              /\ IF r.outcome = "dict"
                 THEN /\ pc' = "discover"
                      /\ processed' = r.state.processed
                      /\ last_mtime_seen' = r.state.last_processed_mtime
                      /\ UNCHANGED <<inputs, sig, gz, processed_count, writer, calm>>
                 ELSE Raise
    /\ UNCHANGED <<files, chunks, runs, envSteps, savedMax, mergedAt, diskLog, wvars>>

Orders(S) == { o \in [1..Cardinality(S) -> S] : \A i, j \in DOMAIN o : i # j => o[i] # o[j] }

\* discover_inputs, lines 64-67: glob lists the paths that exist, in no set order.
Discover ==
    /\ pc = "discover"
    /\ inputs' \in Orders({p \in Paths : files[p] # "none"})
    /\ pc' = "sort"
    /\ UNCHANGED <<fsvars, processed, last_mtime_seen, sig, gz, processed_count, writer,
                   histvars, wvars>>

\* Lines 69-70 and 137-139: os.stat of a path that is gone raises FileNotFoundError.
SortInputs ==
    /\ pc = "sort"
    /\ IF \E i \in DOMAIN inputs : files[inputs[i]] = "none"
       THEN Raise
       ELSE IF inputs = <<>>
       THEN StopRun("exit0") /\ Completed
       ELSE /\ inputs' = SortByMtime(files, inputs)
            /\ pc' = "open"
            /\ UNCHANGED <<processed, last_mtime_seen, sig, gz, processed_count, writer, calm>>
    /\ UNCHANGED <<fsvars, runs, envSteps, savedMax, mergedAt, diskLog, wvars>>

\* Lines 141-142.
OpenWriter ==
    /\ pc = "open"
    /\ LET r == _open_existing_or_new(chunks, next_output_index(chunks))
       IN  chunks' = r.chunks /\ writer' = r.writer
    /\ pc' = "loop"
    /\ UNCHANGED <<files, sdir, processed, last_mtime_seen, inputs, sig, gz, processed_count,
                   histvars, wvars>>

\* Lines 145-157: the next input, its signature, the duplicate test.
LoopNext ==
    /\ pc = "loop"
    /\ IF inputs = <<>>
       THEN /\ pc' = "close"
            /\ UNCHANGED <<inputs, sig, last_mtime_seen>>
       ELSE LET path == Head(inputs)
            IN  IF files[path] = "none"
                THEN /\ inputs' = Tail(inputs)
                     /\ UNCHANGED <<pc, sig, last_mtime_seen>>
                ELSE LET s == file_signature(files[path])
                     IN  IF is_duplicate(processed, path, s)
                         THEN /\ last_mtime_seen' = Max(last_mtime_seen, s.mtime)
                              /\ inputs' = Tail(inputs)
                              /\ UNCHANGED <<pc, sig>>
                         ELSE /\ sig' = s
                              /\ pc' = "gzopen"
                              /\ UNCHANGED <<inputs, last_mtime_seen>>
    /\ UNCHANGED <<fsvars, processed, gz, processed_count, writer, histvars, wvars>>

\* Line 161: gzip.open of a path that is gone raises FileNotFoundError, an OSError.
GzOpen ==
    /\ pc = "gzopen"
    /\ LET path == Head(inputs)
       IN  IF files[path] = "none"
           THEN /\ inputs' = Tail(inputs)
                /\ pc' = "loop"
                /\ sig' = NoSig
                /\ UNCHANGED gz
           ELSE /\ gz' = [ver |-> files[path], pos |-> 1]
                /\ pc' = "read"
                /\ UNCHANGED <<inputs, sig>>
    /\ UNCHANGED <<fsvars, processed, last_mtime_seen, processed_count, writer, histvars, wvars>>

AtEnd == pc = "read" /\ gz.pos > Len(Ver[gz.ver].lines)

\* Lines 162-166: one line of the stream.
ReadLine ==
    /\ pc = "read"
    /\ gz.pos <= Len(Ver[gz.ver].lines)
    /\ LET line == Ver[gz.ver].lines[gz.pos]
           r == write_line(chunks, writer, normalize(line))
       IN  /\ chunks' = r.chunks
           /\ writer' = r.writer
           /\ diskLog' = IF r.writer.index # writer.index
                         THEN diskLog \o writer.buf ELSE diskLog
    /\ gz' = [gz EXCEPT !.pos = @ + 1]
    /\ mergedAt' = IF /\ gz.pos = Len(Ver[gz.ver].lines)
                      /\ Ver[gz.ver].fail = "none"
                      /\ files[Head(inputs)] = gz.ver
                   THEN [mergedAt EXCEPT ![Head(inputs)] = [ver |-> gz.ver, run |-> runs]]
                   ELSE mergedAt
    /\ UNCHANGED <<files, sdir, pc, processed, last_mtime_seen, inputs, sig, processed_count,
                   runs, envSteps, savedMax, calm, wvars>>

\* Lines 167-169: the stream fails with an OSError.
ReadFail ==
    /\ AtEnd
    /\ Ver[gz.ver].fail = "oserror"
    /\ inputs' = Tail(inputs)
    /\ pc' = "loop"
    /\ gz' = NoGz
    /\ sig' = NoSig
    /\ UNCHANGED <<fsvars, processed, last_mtime_seen, processed_count, writer, histvars, wvars>>

\* The stream fails with an exception that is no OSError.
ReadAbort ==
    /\ AtEnd
    /\ Ver[gz.ver].fail = "eoferror"
    /\ Raise
    /\ Settled
    /\ UNCHANGED <<fsvars, runs, envSteps, savedMax, diskLog, wvars>>

\* Lines 171-175.
MarkProcessed ==
    /\ AtEnd
    /\ Ver[gz.ver].fail = "none"
    /\ processed' = mark_processed(processed, Head(inputs), sig)
    /\ last_mtime_seen' = Max(last_mtime_seen, sig.mtime)
    /\ processed_count' = processed_count + 1
    /\ inputs' = Tail(inputs)
    /\ pc' = "loop"
    /\ gz' = NoGz
    /\ sig' = NoSig
    /\ UNCHANGED <<fsvars, writer, histvars, wvars>>

\* Line 177.
CloseWriter ==
    /\ pc = "close"
    /\ LET r == close(chunks, writer)
       IN  chunks' = r.chunks /\ writer' = r.writer
    /\ diskLog' = diskLog \o writer.buf
    /\ pc' = "save"
    /\ UNCHANGED <<files, sdir, processed, last_mtime_seen, inputs, sig, gz, processed_count,
                   runs, envSteps, savedMax, calm, mergedAt, wvars>>

\* save_state, lines 50-52: the temporary file is opened for writing.
SaveOpenTmp ==
    /\ pc = "save"
    /\ sdir' = [sdir EXCEPT ![tmp_path] = Bad("partial")]
    /\ pc' = "save_write"
    /\ UNCHANGED <<files, chunks, processed, last_mtime_seen, inputs, sig, gz, processed_count,
                   writer, histvars, wvars>>

\* Lines 53-55: the document is written out and synced.
SaveWrite ==
    /\ pc = "save_write"
    /\ sdir' = [sdir EXCEPT ![tmp_path] = Doc(processed, last_mtime_seen)]
    /\ pc' = "save_replace"
    /\ UNCHANGED <<files, chunks, processed, last_mtime_seen, inputs, sig, gz, processed_count,
                   writer, histvars, wvars>>

\* Line 56 and lines 184-185.
SaveReplace ==
    /\ pc = "save_replace"
    /\ sdir' = IF tmp_path = STATE_FILE THEN sdir
               ELSE [sdir EXCEPT ![STATE_FILE] = sdir[tmp_path], ![tmp_path] = Missing]
    /\ StopRun("exit0")
    /\ Completed
    /\ savedMax' = IF sdir[tmp_path].mtime > savedMax THEN sdir[tmp_path].mtime ELSE savedMax
    /\ UNCHANGED <<files, chunks, runs, envSteps, mergedAt, diskLog, wvars>>

\* The buffered handle writes some of its buffer through to the file.
BufferFlush ==
    /\ pc \notin Stopped
    /\ writer.fh # <<>>
    /\ writer.buf # <<>>
    /\ \E k \in 1..Len(writer.buf) :
          /\ chunks' = [chunks EXCEPT ![writer.fh[1]] = @ \o SubSeq(writer.buf, 1, k)]
          /\ writer' = [writer EXCEPT !.buf = SubSeq(@, k + 1, Len(@))]
          /\ diskLog' = diskLog \o SubSeq(writer.buf, 1, k)
    /\ UNCHANGED <<files, sdir, pc, processed, last_mtime_seen, inputs, sig, gz,
                   processed_count, runs, envSteps, savedMax, calm, mergedAt, wvars>>

\* The process is killed: nothing more is written.
Kill ==
    /\ pc \notin Stopped
    /\ StopRun("killed")
    /\ calm' = "none"
    /\ Settled
    /\ UNCHANGED <<fsvars, runs, envSteps, savedMax, diskLog, wvars>>

\* Lines 188-192: KeyboardInterrupt ends the run with status 130.  Whether the
\* interpreter writes the buffer out on its way down is left to BufferFlush.
Interrupt ==
    /\ pc \notin Stopped
    /\ StopRun("exit130")
    /\ calm' = "none"
    /\ Settled
    /\ UNCHANGED <<fsvars, runs, envSteps, savedMax, diskLog, wvars>>

(***************************************************************************)
(* The external actors: log rotation renames, creates and deletes input    *)
(* files at any moment; between runs the state file may be damaged.        *)
(***************************************************************************)
EnvStep(p, q) ==
    /\ envSteps < MaxEnv
    /\ envSteps' = envSteps + 1
    /\ calm' = "none"
    /\ mergedAt' = [x \in Paths |-> IF x \in {p, q} THEN NoMerge ELSE mergedAt[x]]
    /\ UNCHANGED <<sdir, chunks, runvars, runs, savedMax, diskLog, wvars>>

Env_Rename ==
    \E p, q \in Paths :
        /\ p # q
        /\ files[p] # "none"
        /\ files' = [files EXCEPT ![q] = files[p], ![p] = "none"]
        /\ EnvStep(p, q)

Env_Create ==
    \E p \in Paths, v \in Versions :
        /\ \A x \in Paths : files[x] # v
        /\ files' = [files EXCEPT ![p] = v]
        /\ EnvStep(p, p)

Env_Delete ==
    \E p \in Paths :
        /\ files[p] # "none"
        /\ files' = [files EXCEPT ![p] = "none"]
        /\ EnvStep(p, p)

Env_DamageState ==
    /\ pc \in Stopped
    /\ envSteps < MaxEnv
    /\ \E kind \in BadKinds : sdir' = [sdir EXCEPT ![STATE_FILE] = Bad(kind)]
    /\ envSteps' = envSteps + 1
    /\ calm' = "none"
    /\ UNCHANGED <<files, chunks, runvars, runs, savedMax, mergedAt, diskLog, wvars>>

Next ==
    \/ Start
    \/ LoadState
    \/ Discover
    \/ SortInputs
    \/ OpenWriter
    \/ LoopNext
    \/ GzOpen
    \/ ReadLine
    \/ ReadFail
    \/ ReadAbort
    \/ MarkProcessed
    \/ CloseWriter
    \/ SaveOpenTmp
    \/ SaveWrite
    \/ SaveReplace
    \/ BufferFlush
    \/ Kill
    \/ Interrupt
    \/ Env_Rename
    \/ Env_Create
    \/ Env_Delete
    \/ Env_DamageState

Spec == Init /\ [][Next]_vars

(***************************************************************************)
(* Recovery from a corrupt state file: the runs on one pair of input       *)
(* files, where the document a run has saved may be damaged before the     *)
(* next run whatever else the external actors have done.                   *)
(***************************************************************************)
InitRecovery ==
    /\ Init
    /\ files = [p \in Paths |-> IF p = "dshield.log.1.gz" THEN "B" ELSE "A"]
    /\ chunks = <<>>

Env_CorruptState ==
    /\ pc \in Stopped
    /\ sdir[STATE_FILE].kind = "doc"
    /\ \E kind \in BadKinds : sdir' = [sdir EXCEPT ![STATE_FILE] = Bad(kind)]
    /\ calm' = "none"
    /\ UNCHANGED <<files, chunks, runvars, runs, envSteps, savedMax, mergedAt, diskLog, wvars>>

NextRecovery ==
    \/ Next
    \/ Env_CorruptState

SpecRecovery == InitRecovery /\ [][NextRecovery]_vars

(***************************************************************************)
(* Notions the properties share.                                           *)
(***************************************************************************)
SameSig(a, b) == a.ino = b.ino /\ a.size = b.size /\ a.mtime = b.mtime

\* The document a run would load from the state file.
Persisted == IF sdir.state.kind = "doc" THEN sdir.state ELSE Missing
PersistedNext == IF sdir'.state.kind = "doc" THEN sdir'.state ELSE Missing

Recorded(p, s) ==
    p \in DOMAIN Persisted.processed /\ SameSig(Persisted.processed[p], s)

\* A step of the second of two runs that completed in a row with no external
\* step since the first of them started.
SecondRunStep == calm = "second" /\ calm' \in {"second", "done1"}

NothingRedone ==
    /\ chunks' = chunks
    /\ PersistedNext.processed = Persisted.processed
    /\ PersistedNext.mtime >= Persisted.mtime

AllReadable == \A p \in Paths : files[p] # "none" => Ver[files[p]].fail = "none"

(***************************************************************************)
(* C1  Idempotence as claimed: for any set of input files, the second of   *)
(* two runs in a row leaves every chunk file and the persisted `processed` *)
(* map unchanged and does not lower the persisted watermark.               *)
(***************************************************************************)
C1_IdempotentAsClaimed == [][SecondRunStep => NothingRedone]_vars

(***************************************************************************)
(* C1 as amended: the same, for input files that are all read to their end *)
(* without a read error.                                                   *)
(***************************************************************************)
C1_IdempotentWhenReadable == [][(SecondRunStep /\ AllReadable) => NothingRedone]_vars

\* The second run has skipped two merged inputs and is about to replace the
\* state file.
C1_Witness ==
    /\ calm = "second"
    /\ pc = "save_replace"
    /\ AllReadable
    /\ \A p \in Paths : files[p] # "none" /\ Recorded(p, file_signature(files[p]))
    /\ diskLog # <<>>

(***************************************************************************)
(* C2  Rotation: while a run appends the lines of a file, the persisted    *)
(* state does not record that same file (same inode, size and              *)
(* modification time) as merged under another path.                        *)
(***************************************************************************)
C2_NoReappendAfterRotation ==
    (pc = "read" /\ gz.pos > 1) =>
        ~ \E q \in Paths \ {Head(inputs)} : Recorded(q, file_signature(gz.ver))

Reused(p, s) == p \in DOMAIN processed /\ ~SameSig(processed[p], s)

ReuseNotSkipped ==
    (/\ pc = "loop" /\ inputs # <<>>
     /\ files[Head(inputs)] # "none"
     /\ Reused(Head(inputs), file_signature(files[Head(inputs)])))
    => /\ inputs' = inputs \/ pc' \in Stopped
       /\ pc' \notin ({"loop"} \cup Stopped) =>
              pc' = "gzopen" /\ sig' = file_signature(files[Head(inputs)])

IsSuffix(s, t) == Len(s) <= Len(t) /\ SubSeq(t, Len(t) - Len(s) + 1, Len(t)) = s

ReuseMerged ==
    (/\ AtEnd /\ pc' = "loop"
     /\ Reused(Head(inputs), sig)
     /\ file_signature(gz.ver) = sig
     /\ Ver[gz.ver].fail = "none")
    => /\ IsSuffix(Content(gz.ver), diskLog \o writer.buf)
       /\ Head(inputs) \in DOMAIN processed'
       /\ processed'[Head(inputs)] = sig

(***************************************************************************)
(* C3  Path reuse: when the loop comes to a path recorded in `processed`   *)
(* whose file now has another signature, it does not skip it but opens it  *)
(* for reading; and when that file has been read to its end, every line of *)
(* it has been written, in order, as the last thing written, and           *)
(* processed[path] becomes the new signature.                              *)
(***************************************************************************)
C3_PathReuseMerged == [][ReuseNotSkipped /\ ReuseMerged]_vars

\* A later run has read to its end the file that replaced, at the same path,
\* the one an earlier run recorded.
C3_Witness ==
    /\ AtEnd
    /\ Ver[gz.ver].fail = "none"
    /\ file_signature(gz.ver) = sig
    /\ Reused(Head(inputs), sig)
    /\ Head(inputs) \in DOMAIN Persisted.processed
    /\ Persisted.processed[Head(inputs)] = processed[Head(inputs)]

(***************************************************************************)
(* C4  Every path in the persisted `processed` map has had all lines of    *)
(* the file version with the recorded signature appended to the chunk      *)
(* files.                                                                  *)
(***************************************************************************)
C4_ProcessedWereMerged ==
    \A p \in DOMAIN Persisted.processed :
        \E v \in Versions :
            /\ file_signature(v) = Persisted.processed[p]
            /\ Contains(diskLog, Content(v))

HighestIndex(ch) == CHOOSE i \in DOMAIN ch : \A j \in DOMAIN ch : j <= i

AppendOnly ==
    \A idx \in DOMAIN chunks :
        /\ idx \in DOMAIN chunks'
        /\ IsPrefix(chunks[idx], chunks'[idx])
        /\ chunks'[idx] # chunks[idx] => idx = HighestIndex(chunks)

OnlyHigherCreated ==
    \A idx \in DOMAIN chunks' \ DOMAIN chunks :
        \A j \in DOMAIN chunks : j < idx

(***************************************************************************)
(* C5  Output is append-only: no step removes or shortens a chunk file or  *)
(* changes a byte it holds, and a step changes only the chunk file with    *)
(* the highest index or creates one with a higher index.                   *)
(***************************************************************************)
C5_AppendOnly == [][AppendOnly /\ OnlyHigherCreated]_vars

AppendsAgain ==
    /\ pc = "read"
    /\ gz'.pos > gz.pos
    /\ mergedAt[Head(inputs)].ver = gz.ver
    /\ mergedAt[Head(inputs)].run < runs

(***************************************************************************)
(* C6  Never re-processed, as claimed: once all lines of the file at a     *)
(* path have reached the chunk files in some run, no later run appends a   *)
(* line of that file while it stays at that path, whether or not the       *)
(* earlier run reached save_state.                                         *)
(***************************************************************************)
C6_NeverReprocessedAsClaimed == [][~AppendsAgain]_vars

(***************************************************************************)
(* C6 as amended: no run opens or reads a file whose path the persisted    *)
(* state document records with the signature the run computed for it,      *)
(* that is, a file merged by a run that went on to complete save_state.    *)
(***************************************************************************)
C6_NoReprocessOnceSaved ==
    pc \in {"gzopen", "read"} => ~Recorded(Head(inputs), sig)

\* A later run has passed over the one input, which an earlier run merged and
\* recorded, and has written nothing.
C6_Witness ==
    /\ pc = "close"
    /\ processed_count = 0
    /\ \E p \in Paths :
          /\ files[p] # "none"
          /\ Recorded(p, file_signature(files[p]))
          /\ mergedAt[p].ver = files[p]
          /\ mergedAt[p].run < runs
          /\ diskLog = Content(files[p])

LoadNeverFails ==
    (pc = "load" /\ pc' \notin {"load", "killed", "exit130"}) =>
        /\ pc' = "discover"
        /\ sdir.state.kind \notin {"missing", "doc"} =>
              /\ processed' = <<>>
              /\ last_mtime_seen' = 0
              /\ \/ sdir' = sdir
                 \/ sdir' = [sdir EXCEPT !.state = Missing, !.bak = sdir.state]

(***************************************************************************)
(* C9  Loading never fails: whatever the state file holds, the step that   *)
(* loads it goes on to discovery; content that is no document is loaded as *)
(* the empty document, and the file is renamed to the .bak sibling or,     *)
(* when the rename fails, left where it is.                                *)
(***************************************************************************)
C9_LoadNeverFails == [][LoadNeverFails]_vars

NoPartialState == sdir.state.kind # "partial" /\ sdir.bak.kind # "partial"

SaveIsAtomic ==
    pc \in {"save", "save_write", "save_replace"} =>
        \/ sdir'.state = sdir.state
        \/ sdir'.state = Doc(processed, last_mtime_seen)

(***************************************************************************)
(* C10  Atomic state persistence: the state file never holds a partly      *)
(* written document, and a step of save_state leaves it as it was or makes *)
(* it the complete new document; partly written content exists at the      *)
(* temporary path only.                                                    *)
(***************************************************************************)
C10_AtomicSave == []NoPartialState /\ [][SaveIsAtomic]_vars

\* A run was killed in the middle of save_state: the temporary file is partly
\* written and the state file still holds the previous run's document.
C10_Witness ==
    /\ pc = "killed"
    /\ sdir.tmp.kind = "partial"
    /\ sdir.state.kind = "doc"
    /\ sdir.state.processed # <<>>

OneOversizeLine(bytes) ==
    \E l \in Lines : Len(encode(l)) > CHUNK_BYTES /\ bytes = encode(l)

ChunkSizeBound ==
    \A idx \in DOMAIN chunks :
        LET bytes == Logical(chunks, writer)[idx]
        IN  /\ Len(chunks[idx]) <= Len(bytes)
            /\ Len(bytes) <= CHUNK_BYTES \/ OneOversizeLine(bytes)

LineInOneChunk ==
    (Len(ops') = Len(ops) + 1 /\ ops'[Len(ops')].op = "write_line") =>
        LET before == Logical(chunks, writer)
            after == Logical(chunks', writer')
            data == encode(ops'[Len(ops')].line)
            idx == writer'.index
        IN  /\ DOMAIN after = DOMAIN before \cup {idx}
            /\ \A j \in DOMAIN before \ {idx} : after[j] = before[j]
            /\ \/ after[idx] = data
               \/ idx \in DOMAIN before /\ idx = writer.index
                                        /\ after[idx] = before[idx] \o data

(***************************************************************************)
(* C7  Chunk size bound: after any sequence of construction, write_line,   *)
(* rotate and close calls every chunk file holds at most CHUNK_BYTES       *)
(* bytes, unless it holds exactly one line and that line alone is longer   *)
(* than CHUNK_BYTES; and the bytes of one write_line call all go to one    *)
(* chunk file, the others being left as they were.                         *)
(***************************************************************************)
C7_ChunkSizeBound == []ChunkSizeBound /\ [][LineInOneChunk]_vars

\* An oversize line sits alone in its chunk, after a rotation away from a
\* chunk that was within the bound, and a further line went to the next chunk.
C7_Witness ==
    /\ writer.index >= 3
    /\ \E idx \in DOMAIN chunks :
          /\ idx + 1 \in DOMAIN chunks
          /\ idx - 1 \in DOMAIN chunks
          /\ Len(chunks[idx]) > CHUNK_BYTES
          /\ chunks[idx - 1] # <<>>
    /\ \E i \in 1..Len(stops) : stops[i].at > 0 /\ stops[i].at < Len(ops)

Finished ==
    /\ writer.fh = <<>>
    /\ Len(stops) >= 2
    /\ stops[Len(stops)].how = "close"

(***************************************************************************)
(* C8  Resume correctness.  As claimed: after a writer was stopped and a   *)
(* fresh writer on the same index wrote the rest and was closed, the chunk *)
(* files are those of the same calls made on one uninterrupted writer.     *)
(***************************************************************************)
C8_ResumeAsClaimed == Finished => chunks = Uninterrupted(ops)

(***************************************************************************)
(* C8 as amended: the same, provided every stop left nothing in the        *)
(* handle's buffer (the writer was closed, or killed after its writes had  *)
(* reached the file).  It holds in every state from the first construction *)
(* on, counting buffered bytes as written.                                 *)
(***************************************************************************)
C8_ResumeWhenFlushed ==
    (Constructed /\ ~Lost) => Logical(chunks, writer) = Uninterrupted(ops)

\* A writer stopped in the middle of a chunk, by kill, with nothing buffered;
\* a fresh writer appended to that chunk and was closed.
C8_Witness ==
    /\ Finished
    /\ ~Lost
    /\ stops[1].how = "kill"
    /\ stops[1].size > 0 /\ stops[1].size < CHUNK_BYTES
    /\ stops[1].at < Len(ops)
    /\ ops[stops[1].at + 1].op = "write_line"
    /\ Len(chunks[1]) = CHUNK_BYTES

\* A step the run itself takes to go on (not a kill, not an interrupt).
Proceeds == pc' # pc /\ pc' \notin {"killed", "exit130"}

ReadFailed == AtEnd /\ Ver[gz.ver].fail # "none"

CannotOpen == pc = "gzopen" /\ files[Head(inputs)] = "none"

FailureIsolated ==
    ((ReadFailed \/ CannotOpen) /\ Proceeds) =>
        /\ pc' = "loop"
        /\ inputs' = Tail(inputs)
        /\ processed' = processed
        /\ processed_count' = processed_count

(***************************************************************************)
(* C11  Per-input failure isolation: when the file of an input cannot be   *)
(* opened, or its stream fails partway for whatever reason, the run goes   *)
(* back to the loop with the next input, leaving `processed` and the count *)
(* of merged inputs as they were.                                          *)
(***************************************************************************)
C11_FailureIsolated == [][FailureIsolated]_vars

Vanished == \E i \in DOMAIN inputs : files[inputs[i]] = "none"

VanishedAtSort == (pc = "sort" /\ Vanished /\ Proceeds) => pc' = "open"

VanishedAtStat ==
    (pc = "loop" /\ inputs # <<>> /\ files[Head(inputs)] = "none" /\ inputs' # inputs) =>
        /\ pc' = "loop"
        /\ inputs' = Tail(inputs)
        /\ processed' = processed
        /\ chunks' = chunks

(***************************************************************************)
(* C12  Vanished inputs are tolerated: when a listed path is gone at the   *)
(* time of the modification-time sort the run goes on to open the writer,  *)
(* and when it is gone at the time its signature is computed the loop      *)
(* passes to the next input, recording and writing nothing.                *)
(***************************************************************************)
C12_VanishedTolerated == [][VanishedAtSort /\ VanishedAtStat]_vars

Saves == pc = "save_replace" /\ pc' = "exit0"

(***************************************************************************)
(* C13  Watermark monotonicity as claimed: across any sequence of runs,    *)
(* recovery from a corrupt state file included, the watermark a run saves  *)
(* is never lower than any watermark saved before.                         *)
(***************************************************************************)
C13_WatermarkNeverLowerAsClaimed == [][Saves => sdir'.state.mtime >= savedMax]_vars

WatermarkCovers(doc) ==
    \A p \in DOMAIN doc.processed : doc.processed[p].mtime <= doc.mtime

WatermarkKept ==
    /\ Saves => PersistedNext.mtime >= Persisted.mtime
    /\ (pc \notin Stopped /\ pc # "load" /\ pc' \notin Stopped) =>
           last_mtime_seen' >= last_mtime_seen

(***************************************************************************)
(* C13 as amended: the watermark a run saves is never lower than the one   *)
(* in the document it loaded (0 when the state file was missing or was     *)
(* corrupt and loaded as the empty document); within a run the watermark   *)
(* never decreases; and it is at least the modification time of every      *)
(* entry of `processed`, in memory and in the persisted document.          *)
(***************************************************************************)
C13_WatermarkNeverLower ==
    /\ [][WatermarkKept]_vars
    /\ [](WatermarkCovers(Persisted))
    /\ [](pc \notin (Stopped \cup {"load"}) =>
              WatermarkCovers(Doc(processed, last_mtime_seen)))

\* A run has recovered from a corrupt state file (renamed aside), merged an
\* input again and saved a watermark that is not lower than any saved before.
C13_Witness ==
    /\ pc = "exit0"
    /\ sdir.bak.kind \in BadKinds
    /\ sdir.state.kind = "doc"
    /\ sdir.state.processed # <<>>
    /\ sdir.state.mtime = savedMax
    /\ savedMax > 1
    /\ runs = 2

RunChangesState == pc \notin (Stopped \cup {"load"}) /\ sdir'.state # sdir.state

PersistsLast ==
    RunChangesState =>
        /\ Saves
        /\ writer.fh = <<>>
        /\ sdir'.state = Doc(processed, last_mtime_seen)

ReturnsZero == pc \notin Stopped /\ pc' = "exit0"

NoInputFound == pc = "sort" /\ inputs = <<>> /\ sdir' = sdir

Written == diskLog \o writer.buf
WrittenNext == diskLog' \o writer'.buf

Body(line) == IF endswith_newline(line) THEN SubSeq(line, 1, Len(line) - 1) ELSE line

LineNormalized ==
    (pc = "read" /\ gz'.pos = gz.pos + 1) =>
        LET line == Ver[gz.ver].lines[gz.pos]
            body == encode(Body(line))
        IN  /\ WrittenNext = Written \o body \o <<10>>
            /\ \A i \in DOMAIN body : body[i] # 10

(***************************************************************************)
(* C15  Line normalization: for every line the text stream yields, with or *)
(* without a terminator, the bytes appended for it are the encoding of its *)
(* characters other than the terminator, unchanged, followed by exactly    *)
(* one newline.                                                            *)
(***************************************************************************)
C15_LineNormalized == [][LineNormalized]_vars

\* Both lines of a file whose last line has no terminator have been appended.
C15_Witness ==
    /\ pc = "read"
    /\ gz.ver = "B"
    /\ gz.pos = Len(Ver["B"].lines) + 1
    /\ ~endswith_newline(Ver["B"].lines[Len(Ver["B"].lines)])
    /\ IsSuffix(<<195, 169, 10, 97, 10>>, Written)

RestartsAtHighest ==
    (pc = "open" /\ pc' = "loop") =>
        /\ writer'.index = IF DOMAIN chunks = {} THEN 1 ELSE HighestIndex(chunks)
        /\ writer'.fh = <<writer'.index>>
        /\ DOMAIN chunks # {} => chunks' = chunks

FullChunkLeft ==
    (/\ pc = "read" /\ gz'.pos = gz.pos + 1
     /\ Len(Logical(chunks, writer)[writer.index]) >= CHUNK_BYTES)
    => /\ writer'.index = writer.index + 1
       /\ Logical(chunks', writer')[writer.index] = Logical(chunks, writer)[writer.index]

(***************************************************************************)
(* C16  Restart index selection: a run opens its writer on the highest     *)
(* index among the existing chunk files (index 1 when there is none),      *)
(* leaving the files as they are; and a line written while the current     *)
(* chunk is at or over the bound goes to the next index, the current chunk *)
(* being left unchanged.                                                   *)
(***************************************************************************)
C16_RestartAtHighest == [][RestartsAtHighest /\ FullChunkLeft]_vars

Dense ==
    \A i \in DOMAIN chunks :
        i - 1 \in DOMAIN chunks \/ \A j \in DOMAIN chunks : i <= j

IndexGrowsByOne ==
    (writer.fh # <<>> /\ writer'.fh # <<>>) =>
        writer'.index \in {writer.index, writer.index + 1}

\* The writer stands on no index below one that a chunk file already has,
\* and only the chunk with the highest index changes.
NeverBehind ==
    /\ writer'.fh # <<>> => \A j \in DOMAIN chunks : j <= writer'.index
    /\ \A idx \in DOMAIN chunks \cap DOMAIN chunks' :
           chunks'[idx] # chunks[idx] => \A j \in DOMAIN chunks : j <= idx

(***************************************************************************)
(* C17  Chunk indices are dense and never reused: the indices of the chunk *)
(* files form a contiguous range; an open writer's index stays or grows by *)
(* one in a step; and neither a writer opened by a later run nor a write   *)
(* goes to an index below one that already exists, that is, to an index    *)
(* the writer has rotated past.                                            *)
(***************************************************************************)
C17_DenseNeverReused == []Dense /\ [][IndexGrowsByOne /\ NeverBehind]_vars

DuplicateStep ==
    /\ pc = "loop" /\ inputs # <<>>
    /\ files[Head(inputs)] # "none"
    /\ Head(inputs) \in DOMAIN processed
    /\ SameSig(processed[Head(inputs)], file_signature(files[Head(inputs)]))
    /\ inputs' # inputs \/ pc' # pc
    /\ pc' \notin {"killed", "exit130"}

SkipChangesOnlyWatermark ==
    DuplicateStep =>
        LET mtime == file_signature(files[Head(inputs)]).mtime
        IN  /\ pc' = "loop" /\ inputs' = Tail(inputs)
            /\ chunks' = chunks
            /\ writer' = writer
            /\ processed' = processed
            /\ processed_count' = processed_count
            /\ sdir' = sdir
            /\ last_mtime_seen' >= last_mtime_seen
            /\ last_mtime_seen' >= mtime
            /\ last_mtime_seen' \in {last_mtime_seen, mtime}

(***************************************************************************)
(* C18  Skipping a duplicate changes nothing but the watermark: when the   *)
(* signature of the input equals processed[path] in every field, the step  *)
(* passes to the next input, leaves the chunk files, the writer (index and *)
(* byte counter), `processed` and the count of merged inputs unchanged,    *)
(* and makes the watermark the larger of its value and the modification    *)
(* time.                                                                   *)
(***************************************************************************)
C18_SkipChangesOnlyWatermark == [][SkipChangesOnlyWatermark]_vars

\* A later run has skipped two recorded inputs, the first of them older than
\* the watermark, and has merged nothing.
C18_Witness ==
    /\ pc = "loop" /\ inputs = <<>>
    /\ runs = 2
    /\ processed_count = 0
    /\ \A p \in Paths :
          /\ files[p] # "none"
          /\ p \in DOMAIN processed
          /\ SameSig(processed[p], file_signature(files[p]))
    /\ \E p \in Paths : processed[p].mtime < last_mtime_seen
    /\ writer.fh # <<>> /\ writer.buf = <<>>
    /\ diskLog # <<>>

\* The chunk files read one after the other in ascending index order.
RECURSIVE ConcatChunks(_)
ConcatChunks(ch) ==
    IF DOMAIN ch = {} THEN <<>>
    ELSE LET hi == HighestIndex(ch)
         IN  ConcatChunks([i \in DOMAIN ch \ {hi} |-> ch[i]]) \o ch[hi]

RECURSIVE EncodedLines(_)
EncodedLines(os) ==
    IF os = <<>> THEN <<>>
    ELSE EncodedLines(SubSeq(os, 1, Len(os) - 1)) \o
         (IF os[Len(os)].op = "write_line" THEN encode(os[Len(os)].line) ELSE <<>>)

RecordsWhatWasRead ==
    (AtEnd /\ processed' # processed) =>
        /\ Head(inputs) \in DOMAIN processed'
        /\ processed'[Head(inputs)] = file_signature(gz.ver)

(***************************************************************************)
(* C20  The signature recorded for a path is that of the file version      *)
(* whose lines were appended: the step that records an input after reading *)
(* it to its end sets processed[path] to the signature of the version the  *)
(* stream was opened on, whatever the external actors did to the path      *)
(* since the signature was computed.                                       *)
(***************************************************************************)
C20_RecordsWhatWasRead == [][RecordsWhatWasRead]_vars

====
